---- MODULE Spec2Model ----
(***************************************************************************)
(* Model of src/scripts/bundles/sys-node.ts: sysNodeExternalBundles (the   *)
(* orchestrator) and bundleExternal (one bundle job: cache fast path,      *)
(* webpack compile, terser minification or cache write-back).              *)
(*                                                                         *)
(* The file system maps the paths outputDir/entryFileName and              *)
(* cachedDir/entryFileName to files.  A job advances at the points where   *)
(* the code suspends: each awaited fs call and the webpack completion      *)
(* callback.                                                               *)
(* Code that runs between two suspension points is one atomic step, as on  *)
(* the single-threaded event loop.                                         *)
(***************************************************************************)
EXTENDS Integers, Sequences, FiniteSets, TLC

\* ---------------------------------------------------------------- bounds

\* how many of the seven entries of sysNodeExternalBundles one run bundles
NumJobs == 2
\* how many times the build script is run (files persist between the runs)
MaxRuns == 2
\* longest module request enumerated character by character
MaxLen == 3

\* ------------------------------------------------------------ entry names

\* the entryFileName arguments, in the order of the Promise.all array
entryFileNamesAlt ==
  << "autoprefixer.js", "autoprefixer.js", "graceful-fs.js", "node-fetch.js",
     "prompts.js", "open-in-editor-api.js", "ws.js" >>
entryFileNames ==
  << "autoprefixer.js", "glob.js", "graceful-fs.js", "node-fetch.js",
     "prompts.js", "open-in-editor-api.js", "ws.js" >>

\* the jobs of one run: the first NumJobs calls of the Promise.all array
Jobs == 1 .. NumJobs

\* the outputDir argument of each bundleExternal call
outputDirs ==
  << "sysNodeDir", "sysNodeDir", "sysNodeDir", "sysNodeDir", "sysNodeDir",
     "devServerDir", "devServerDir" >>

\* path.join(dir, name)
join(dir, name) == << dir, name >>

Name(j) == entryFileNames[j]
outputPath(j) == join(outputDirs[j], Name(j))
cachedPathAlt(j) == join("cachedDir", "bundle.js")
cachedPath(j) == join("cachedDir", Name(j))
Paths == { outputPath(j) : j \in Jobs } \cup { cachedPath(j) : j \in Jobs }

\* ------------------------------------------------------------------ files

\* a file that does not exist
NoFile == [exists |-> FALSE, name |-> "", ver |-> 0, min |-> FALSE]

\* what webpack emits for an entry whose source is at version v
\* (optimization.minimize is false: the bundle is not minified)
webpackOutput(name, v) == [exists |-> TRUE, name |-> name, ver |-> v, min |-> FALSE]

\* terser.minify(code).code
terserMinifyAlt(code) == code
terserMinify(code) == [code EXCEPT !.min = TRUE]

\* ----------------------------------------------------------------- errors

NoError == [kind |-> "none", diag |-> << >>]

\* the err argument webpack hands its callback on a hard failure
webpackErrs == { [kind |-> "Error", diag |-> << "m1" >>] }
\* a truthy err whose message is empty or missing
errNoMessage == [kind |-> "Error", diag |-> << >>]
\* info.errors of a compilation that reported errors
statsErrors == { << "e1", "e2" >> }
\* minifyResults.error
terserErrs == { [kind |-> "terser", diag |-> << "t1" >>] }
\* the TypeError of stats.toJson on an undefined stats
statsTypeError == [kind |-> "TypeError", diag |-> << "stats" >>]
\* what require.resolve throws for a module it cannot find (line 149)
resolutionError == [kind |-> "Error", diag |-> << "MODULE_NOT_FOUND" >>]
\* a rejected fs call
fsError(op) == [kind |-> "fs", diag |-> << op >>]

\* Array.prototype.join('\n') over info.errors
joinErrorsAlt(errors) == errors
RECURSIVE joinErrors(_)
joinErrors(errors) ==
  IF Len(errors) = 0 THEN << >>
  ELSE IF Len(errors) = 1 THEN << errors[1] >>
  ELSE << errors[1], "\n" >> \o joinErrors(Tail(errors))

\* the value handed to rejectBundle on a soft failure
webpackError(errors) == [kind |-> "string", diag |-> joinErrors(errors)]

\* ------------------------------------------------------------------ state

VARIABLES
  run,          \* number of runs of sysNodeExternalBundles started so far
  isProd,       \* opts.isProd of the current run
  opc,          \* where sysNodeExternalBundles is
  allError,     \* the rejection of sysNodeExternalBundles
  cachedDirOk,  \* fs.ensureDir(cachedDir) completed in this run
  copied,       \* the static assets copied in this run
  srcRev,       \* revision of the source tree (opts.srcDir)
  files,        \* the file system: path -> file
  jpc,          \* where each bundleExternal call is
  jres,         \* state of the promise bundleExternal returned
  jerr,         \* its rejection value
  code,         \* the local variable code of the webpack callback
  hist,         \* per job: what the job did (history, read by the properties)
  request,      \* the request argument of the externals hook
  resolvable,   \* require.resolve(request) succeeds in this environment
  hookResult    \* what the externals hook did with the request

vars == << run, isProd, opc, allError, cachedDirOk, copied, srcRev, files,
           jpc, jres, jerr, code, hist, request, resolvable, hookResult >>

\* the variables of the jobs and of the orchestrator
jobVars == << run, isProd, opc, allError, cachedDirOk, copied, srcRev, files,
              jpc, jres, jerr, code, hist >>

\* the variables of one call of the externals hook
hookVars == << request, resolvable, hookResult >>

NoHist ==
  [ existsChecked |-> FALSE,   \* fs.existsSync(cachedFile) was called
    cacheCopied   |-> FALSE,   \* fs.copyFile(cachedFile, outputFile) completed
    cacheAtStart  |-> NoFile,  \* cachedFile when the job started
    webpackCalls  |-> 0,       \* calls of webpack(...)
    outcome       |-> "none",  \* how the webpack callback was entered
    err           |-> NoError, \* the err argument of the webpack callback
    errors        |-> << >>,   \* info.errors
    statsInspected |-> FALSE,  \* stats.toJson was called
    touched       |-> {},      \* the paths the job read or wrote
    emitted       |-> NoFile,  \* what webpack wrote to outputFile
    minified      |-> FALSE,   \* terser.minify was called
    minifyError   |-> NoError, \* minifyResults.error
    wroteMinified |-> FALSE,   \* fs.writeFile(outputFile, code) completed
    wroteBack     |-> FALSE,   \* fs.copyFile(outputFile, cachedFile) completed
    occurred      |-> NoError, \* the error that occurred inside the job
    order         |-> 0 ]      \* position among the rejections of this run

InitJobs ==
  /\ run = 0
  /\ isProd = FALSE
  /\ opc = "idle"
  /\ allError = NoError
  /\ cachedDirOk = FALSE
  /\ copied = {}
  /\ srcRev = 1
  /\ files = [p \in Paths |-> NoFile]
  /\ jpc = [j \in Jobs |-> "init"]
  /\ jres = [j \in Jobs |-> "pending"]
  /\ jerr = [j \in Jobs |-> NoError]
  /\ code = [j \in Jobs |-> NoFile]
  /\ hist = [j \in Jobs |-> NoHist]

\* ------------------------------------------------------- externals hook

\* a module request is the sequence of its characters
mockDocRequest ==
  << "@", "s", "t", "e", "n", "c", "i", "l", "/", "c", "o", "r", "e", "/",
     "m", "o", "c", "k", "-", "d", "o", "c" >>
\* '../../mock-doc'
mockDocTarget ==
  << ".", ".", "/", ".", ".", "/", "m", "o", "c", "k", "-", "d", "o", "c" >>
childProcess == << "c", "h", "i", "l", "d", "_", "p", "r", "o", "c", "e", "s", "s" >>
os == << "o", "s" >>
typescript == << "t", "y", "p", "e", "s", "c", "r", "i", "p", "t" >>
postcss == << "p", "o", "s", "t", "c", "s", "s" >>

\* line 120
whitelist == { childProcess, os, typescript }

\* request.match(/^(\.{0,2})\//): up to two dots, then a slash, at the start
matchesPath(req) ==
  \E n \in 0 .. 2 :
    /\ Len(req) > n
    /\ \A i \in 1 .. n : req[i] = "."
    /\ req[n + 1] = "/"

\* the second argument of callback: undefined, or a module id
undefinedId == [defined |-> FALSE, id |-> << >>]
moduleId(id) == [defined |-> TRUE, id |-> id]

\* the externals hook has not been called
notCalled == [callbacks |-> 0, external |-> undefinedId, thrown |-> FALSE]
\* callback(null, value) was invoked once and the hook returned
calledBack(value) == [callbacks |-> 1, external |-> value, thrown |-> FALSE]
\* require.resolve threw before the callback was invoked
resolveThrew == [callbacks |-> 0, external |-> undefinedId, thrown |-> TRUE]

\* lines 137-155: externals(_context, request, callback), where canResolve
\* tells whether require.resolve(request) finds the module
externalsAlt(req, canResolve) ==
  IF matchesPath(req) THEN calledBack(moduleId(req))
  ELSE IF req = mockDocRequest THEN calledBack(moduleId(mockDocTarget))
  ELSE IF req \in whitelist
       THEN IF canResolve THEN calledBack(moduleId(req)) ELSE resolveThrew
  ELSE calledBack(undefinedId)
externals(req, canResolve) ==
  IF matchesPath(req) THEN calledBack(undefinedId)
  ELSE IF req = mockDocRequest THEN calledBack(moduleId(mockDocTarget))
  ELSE IF req \in whitelist
       THEN IF canResolve THEN calledBack(moduleId(req)) ELSE resolveThrew
  ELSE calledBack(undefinedId)

\* the characters short requests are made of
Alphabet == { ".", "/", "o", "s" }

RECURSIVE SeqsUpTo(_)
SeqsUpTo(n) ==
  IF n = 0 THEN { << >> }
  ELSE LET shorter == SeqsUpTo(n - 1)
       IN shorter \cup { Append(r, c) : r \in shorter, c \in Alphabet }

\* line 124: the entry request, join(opts.srcDir, 'sys', 'node', 'bundles',
\* entryFileName), an absolute path; the hook looks at its start only
entryRequest == << "/", "s", "/", "o", "s" >>

\* the requests the hook is called with: every short request, the redirect
\* source and target, the whitelist, a package name, and path-shaped
\* requests that end in a listed name
Requests ==
  SeqsUpTo(MaxLen)
    \cup { entryRequest, mockDocRequest, mockDocTarget, childProcess, os,
           typescript, postcss }
    \cup { << "/" >> \o mockDocRequest, << ".", "/" >> \o typescript,
           << ".", ".", "/" >> \o os, << ".", ".", "." , "/" >> \o os }

\* webpack calls the externals hook with the current request
CallExternals ==
  /\ hookResult = notCalled
  /\ hookResult' = externals(request, resolvable)
  /\ UNCHANGED << request, resolvable >>
  /\ UNCHANGED jobVars

\* webpack goes on to the next request of the compilation
NextRequest(req, canResolve) ==
  /\ hookResult /= notCalled
  /\ ~hookResult.thrown
  /\ request' = req
  /\ resolvable' = canResolve
  /\ hookResult' = notCalled
  /\ UNCHANGED jobVars

\* no module is being classified
InitHook ==
  /\ request = << >>
  /\ resolvable = TRUE
  /\ hookResult = notCalled

Init == InitJobs /\ InitHook

\* ------------------------------------------------------- promise plumbing

\* Promise.all over the bundleExternal promises: the next position of
\* sysNodeExternalBundles once job promises are in the states res
promiseAllAlt(pc, res, j) ==
  IF pc /= "join" THEN pc
  ELSE IF \A k \in Jobs : res[k] /= "pending" THEN "copyVbs"
  ELSE pc
promiseAll(pc, res, j) ==
  IF pc /= "join" THEN pc
  ELSE IF res[j] = "rejected" THEN "failed"
  ELSE IF \A k \in Jobs : res[k] = "resolved" THEN "copyVbs"
  ELSE pc

\* number of job promises rejected so far in this run
Rejections == Cardinality({ k \in Jobs : jres[k] = "rejected" })

\* resolveBundle()
resolveBundle(j) ==
  /\ jres' = [jres EXCEPT ![j] = IF @ = "pending" THEN "resolved" ELSE @]
  /\ jerr' = jerr
  /\ opc' = promiseAll(opc, jres', j)
  /\ allError' = allError

\* rejectBundle(e)
rejectBundle(j, e) ==
  /\ jres' = [jres EXCEPT ![j] = IF @ = "pending" THEN "rejected" ELSE @]
  /\ jerr' = [jerr EXCEPT ![j] = IF jres[j] = "pending" THEN e ELSE @]
  /\ opc' = promiseAll(opc, jres', j)
  /\ allError' = IF opc = "join" /\ opc' = "failed" THEN jerr'[j] ELSE allError

\* an exception thrown inside the async executor or the async webpack
\* callback rejects the promise of that async function, which nothing
\* observes: the promise bundleExternal returned stays as it is
asyncThrow(j) ==
  UNCHANGED << jres, jerr, opc, allError >>

\* ------------------------------------------------- bundleExternal, start

\* line 111: the cache is looked at in non-production builds only
checksCacheAlt(prod) == TRUE
checksCache(prod) == ~prod

\* lines 111-113: the fast path is taken
cacheHitAlt(prod, file) == FALSE
cacheHit(prod, file) == checksCache(prod) /\ file.exists

\* lines 107-122: the executor up to its first suspension
startPc(prod, file) == IF cacheHit(prod, file) THEN "copyCache" ELSE "webpack"

startHist(prod, file, cached) ==
  [ NoHist EXCEPT
      !.existsChecked = checksCache(prod),
      !.cacheAtStart = file,
      !.touched = IF checksCache(prod) THEN { cached } ELSE {},
      !.webpackCalls = IF startPc(prod, file) = "webpack" THEN 1 ELSE 0 ]

\* ------------------------------------------------ sysNodeExternalBundles

\* nothing of the current run can take a step any more
Quiescent ==
  /\ opc \in { "idle", "done", "failed", "join" }
  /\ \A j \in Jobs : jpc[j] \in { "init", "done", "lost" }
  /\ opc = "join" => \E j \in Jobs : jpc[j] = "lost"

\* the build script calls sysNodeExternalBundles(opts); since the run before,
\* the source tree may have been edited
StartRun(prod, edited) ==
  /\ UNCHANGED hookVars
  /\ Quiescent
  /\ run < MaxRuns
  /\ run' = run + 1
  /\ isProd' = prod
  /\ opc' = "ensureDir"
  /\ allError' = NoError
  /\ cachedDirOk' = FALSE
  /\ copied' = {}
  /\ jpc' = [j \in Jobs |-> "init"]
  /\ jres' = [j \in Jobs |-> "pending"]
  /\ jerr' = [j \in Jobs |-> NoError]
  /\ code' = [j \in Jobs |-> NoFile]
  /\ hist' = [j \in Jobs |-> NoHist]
  /\ edited => run > 0
  /\ srcRev' = IF edited THEN srcRev + 1 ELSE srcRev
  /\ UNCHANGED files

\* line 83 completes, and lines 85-93 start every job: each executor runs
\* synchronously up to its first suspension
EnsureDirOk ==
  /\ UNCHANGED hookVars
  /\ opc = "ensureDir"
  /\ cachedDirOk' = TRUE
  /\ opc' = "join"
  /\ jpc' = [j \in Jobs |-> startPc(isProd, files[cachedPath(j)])]
  /\ hist' = [j \in Jobs |-> startHist(isProd, files[cachedPath(j)], cachedPath(j))]
  /\ UNCHANGED << run, isProd, allError, copied, srcRev, files, jres, jerr, code >>

\* line 83 rejects
EnsureDirFail ==
  /\ UNCHANGED hookVars
  /\ opc = "ensureDir"
  /\ opc' = "failed"
  /\ allError' = fsError("ensureDir")
  /\ UNCHANGED << run, isProd, cachedDirOk, copied, srcRev, files,
                  jpc, jres, jerr, code, hist >>

\* lines 96-98
CopyVbs(ok) ==
  /\ UNCHANGED hookVars
  /\ opc = "copyVbs"
  /\ opc' = IF ok THEN "copyXdg" ELSE "failed"
  /\ copied' = IF ok THEN copied \cup { "visualstudio.vbs" } ELSE copied
  /\ allError' = IF ok THEN allError ELSE fsError("copy")
  /\ UNCHANGED << run, isProd, cachedDirOk, srcRev, files,
                  jpc, jres, jerr, code, hist >>

\* lines 101-103
CopyXdg(ok) ==
  /\ UNCHANGED hookVars
  /\ opc = "copyXdg"
  /\ opc' = IF ok THEN "done" ELSE "failed"
  /\ copied' = IF ok THEN copied \cup { "xdg-open" } ELSE copied
  /\ allError' = IF ok THEN allError ELSE fsError("copy")
  /\ UNCHANGED << run, isProd, cachedDirOk, srcRev, files,
                  jpc, jres, jerr, code, hist >>

\* ------------------------------------------- bundleExternal, cache fast path

\* fs.copyFile(src, dest) on the file system fs
copyFile(fs, src, dest) == [fs EXCEPT ![dest] = fs[src]]

\* line 114: fs.copyFile(cachedFile, outputFile)
cacheToOutputAlt(fs, j) == fs
cacheToOutput(fs, j) == copyFile(fs, cachedPath(j), outputPath(j))

\* line 188: fs.copyFile(outputFile, cachedFile)
outputToCacheAlt(fs, j) == fs
outputToCache(fs, j) == copyFile(fs, outputPath(j), cachedPath(j))

\* line 114 completes, then lines 115-116
CopyCacheDone(j) ==
  /\ UNCHANGED hookVars
  /\ jpc[j] = "copyCache"
  /\ files[cachedPath(j)].exists
  /\ files' = cacheToOutput(files, j)
  /\ hist' = [hist EXCEPT ![j].cacheCopied = TRUE,
                          ![j].touched = @ \cup { cachedPath(j), outputPath(j) }]
  /\ jpc' = [jpc EXCEPT ![j] = "done"]
  /\ resolveBundle(j)
  /\ UNCHANGED << run, isProd, cachedDirOk, copied, srcRev, code >>

\* the paths the fs call awaited at pc is given
awaitedPaths(j, pc) ==
  IF pc \in { "copyCache", "writeBack" }
  THEN { cachedPath(j), outputPath(j) }
  ELSE { outputPath(j) }

\* an awaited fs call of the job rejects (lines 114, 179, 186, 188): the
\* await throws inside the async function
AwaitRejects(j) ==
  /\ UNCHANGED hookVars
  /\ jpc[j] \in { "copyCache", "readFile", "writeFile", "writeBack" }
  /\ hist' = [hist EXCEPT ![j].occurred = fsError(jpc[j]),
                          ![j].touched = @ \cup awaitedPaths(j, jpc[j])]
  /\ jpc' = [jpc EXCEPT ![j] = "lost"]
  /\ asyncThrow(j)
  /\ UNCHANGED << run, isProd, cachedDirOk, copied, srcRev, files, code >>

\* ------------------------------------------ bundleExternal, webpack callback

\* the stats argument: undefined when webpack passes an err
undefinedStats == [defined |-> FALSE, errors |-> << >>]
statsOf(errors) == [defined |-> TRUE, errors |-> errors]

\* the (err, stats) pairs webpack calls back with
callbackArgs ==
  { << e, undefinedStats >> : e \in webpackErrs \cup { errNoMessage } }
    \cup { << NoError, statsOf(errs) >> : errs \in statsErrors \cup { << >> } }

\* line 170: err && err.message
hasMessage(err) == err /= NoError /\ Len(err.diag) > 0

\* line 174: stats.hasErrors()
hasErrorsAlt(stats) == FALSE
hasErrors(stats) == Len(stats.errors) > 0

\* lines 178-189: which finalisation a successful compile gets
finalizeAlt(prod) == "writeBack"
finalize(prod) == IF prod THEN "readFile" ELSE "writeBack"

\* lines 170-189: the branch the callback takes
callbackBranch(err, stats, prod) ==
  IF hasMessage(err) THEN "rejectErr"
  ELSE IF ~stats.defined THEN "throw"
  ELSE IF hasErrors(stats) THEN "rejectStats"
  ELSE finalize(prod)

\* webpack emits outputDir/entryFileName when the compilation has no error
\* (mode 'production' sets optimization.noEmitOnErrors)
emits(err, stats) == err = NoError /\ stats.defined /\ Len(stats.errors) = 0

\* webpack calls the callback of line 169
WebpackCallback(j, err, stats) ==
  /\ UNCHANGED hookVars
  /\ jpc[j] = "webpack"
  /\ LET b == callbackBranch(err, stats, isProd)
         out == webpackOutput(Name(j), srcRev)
         occ == CASE b = "rejectErr" -> err
                  [] b = "throw" -> statsTypeError
                  [] stats.defined /\ Len(stats.errors) > 0 -> webpackError(stats.errors)
                  [] OTHER -> NoError
     IN
       /\ files' = IF emits(err, stats)
                   THEN [files EXCEPT ![outputPath(j)] = out]
                   ELSE files
       /\ hist' = [hist EXCEPT
                     ![j].outcome = IF err /= NoError THEN "hard"
                                    ELSE IF Len(stats.errors) > 0 THEN "soft"
                                    ELSE "ok",
                     ![j].err = err,
                     ![j].errors = stats.errors,
                     ![j].statsInspected = (b /= "rejectErr"),
                     ![j].touched = IF emits(err, stats)
                                    THEN @ \cup { outputPath(j) } ELSE @,
                     ![j].emitted = IF emits(err, stats) THEN out ELSE @,
                     ![j].occurred = occ,
                     ![j].order = IF b \in { "rejectErr", "rejectStats" }
                                  THEN Rejections + 1 ELSE 0 ]
       /\ CASE b = "rejectErr" ->
                 /\ rejectBundle(j, err)
                 /\ jpc' = [jpc EXCEPT ![j] = "done"]
            [] b = "throw" ->
                 /\ asyncThrow(j)
                 /\ jpc' = [jpc EXCEPT ![j] = "lost"]
            [] b = "rejectStats" ->
                 /\ rejectBundle(j, webpackError(stats.errors))
                 /\ jpc' = [jpc EXCEPT ![j] = "done"]
            [] OTHER ->
                 /\ asyncThrow(j)
                 /\ jpc' = [jpc EXCEPT ![j] = b]
  /\ UNCHANGED << run, isProd, cachedDirOk, copied, srcRev, code >>

\* line 149 throws inside the externals hook while webpack compiles the job:
\* a whitelisted module cannot be resolved.  The hook neither invokes its
\* callback nor catches the exception, so what follows is webpack's choice:
\* it hands the exception to the callback of line 169 as err, or the
\* exception escapes to the event loop and that callback is never invoked
HookThrows(j, caught) ==
  /\ jpc[j] = "webpack"
  /\ \E req \in whitelist : externals(req, FALSE).thrown
  /\ IF caught
     THEN WebpackCallback(j, resolutionError, undefinedStats)
     ELSE /\ hist' = [hist EXCEPT ![j].occurred = resolutionError]
          /\ jpc' = [jpc EXCEPT ![j] = "lost"]
          /\ asyncThrow(j)
          /\ UNCHANGED << run, isProd, cachedDirOk, copied, srcRev, files, code >>
          /\ UNCHANGED hookVars

\* lines 181-185: what follows terser.minify
afterMinifyAlt(error) == "writeFile"
afterMinify(error) == IF error /= NoError THEN "reject" ELSE "writeFile"

\* line 179 completes, then lines 180-186 up to the await of writeFile
ReadFileDone(j, error) ==
  /\ UNCHANGED hookVars
  /\ jpc[j] = "readFile"
  /\ files[outputPath(j)].exists
  /\ hist' = [hist EXCEPT ![j].minified = TRUE,
                          ![j].touched = @ \cup { outputPath(j) },
                          ![j].minifyError = error,
                          ![j].occurred = error,
                          ![j].order = IF afterMinify(error) = "reject"
                                       THEN Rejections + 1 ELSE 0]
  /\ IF afterMinify(error) = "reject"
     THEN /\ rejectBundle(j, error)
          /\ jpc' = [jpc EXCEPT ![j] = "done"]
          /\ code' = [code EXCEPT ![j] = files[outputPath(j)]]
     ELSE /\ asyncThrow(j)
          /\ jpc' = [jpc EXCEPT ![j] = "writeFile"]
          /\ code' = [code EXCEPT ![j] = terserMinify(files[outputPath(j)])]
  /\ UNCHANGED << run, isProd, cachedDirOk, copied, srcRev, files >>

\* line 186 completes, then line 191
WriteFileDone(j) ==
  /\ UNCHANGED hookVars
  /\ jpc[j] = "writeFile"
  /\ files' = [files EXCEPT ![outputPath(j)] = code[j]]
  /\ hist' = [hist EXCEPT ![j].wroteMinified = TRUE,
                          ![j].touched = @ \cup { outputPath(j) }]
  /\ jpc' = [jpc EXCEPT ![j] = "done"]
  /\ resolveBundle(j)
  /\ UNCHANGED << run, isProd, cachedDirOk, copied, srcRev, code >>

\* line 188 completes, then line 191
WriteBackDone(j) ==
  /\ UNCHANGED hookVars
  /\ jpc[j] = "writeBack"
  /\ files[outputPath(j)].exists
  /\ files' = outputToCache(files, j)
  /\ hist' = [hist EXCEPT ![j].wroteBack = TRUE,
                          ![j].touched = @ \cup { outputPath(j), cachedPath(j) }]
  /\ jpc' = [jpc EXCEPT ![j] = "done"]
  /\ resolveBundle(j)
  /\ UNCHANGED << run, isProd, cachedDirOk, copied, srcRev, code >>

\* ---------------------------------------------------------- specification

Next ==
  \/ \E prod \in BOOLEAN : \E edited \in BOOLEAN : StartRun(prod, edited)
  \/ EnsureDirOk
  \/ EnsureDirFail
  \/ \E ok \in BOOLEAN : CopyVbs(ok)
  \/ \E ok \in BOOLEAN : CopyXdg(ok)
  \/ \E j \in Jobs : CopyCacheDone(j)
  \/ \E j \in Jobs : AwaitRejects(j)
  \/ \E j \in Jobs : \E a \in callbackArgs : WebpackCallback(j, a[1], a[2])
  \/ \E j \in Jobs : \E caught \in BOOLEAN : HookThrows(j, caught)
  \/ \E j \in Jobs : \E error \in terserErrs \cup { NoError } : ReadFileDone(j, error)
  \/ \E j \in Jobs : WriteFileDone(j)
  \/ \E j \in Jobs : WriteBackDone(j)

Spec == Init /\ [][Next]_vars

\* the externals hook on its own: one compilation asks for the entry and
\* then for one request after the other
InitExternals ==
  /\ InitJobs
  /\ request = entryRequest
  /\ resolvable = TRUE
  /\ hookResult = notCalled

NextExternals ==
  \/ CallExternals
  \/ \E req \in Requests : \E canResolve \in BOOLEAN : NextRequest(req, canResolve)

SpecExternals == InitExternals /\ [][NextExternals]_vars

TypeOK ==
  /\ run \in 0 .. MaxRuns
  /\ isProd \in BOOLEAN
  /\ opc \in { "idle", "ensureDir", "join", "copyVbs", "copyXdg", "done", "failed" }
  /\ \A j \in Jobs :
       /\ jpc[j] \in { "init", "copyCache", "webpack", "readFile", "writeFile",
                       "writeBack", "done", "lost" }
       /\ jres[j] \in { "pending", "resolved", "rejected" }

\* the job has started in the current run
Started(j) == jpc[j] /= "init"

\* ------------------------------------------------------------- properties

\* C1: in a production run no job checks whether its cache file exists, none
\* copies the cache file to the output file, whether or not the cache file
\* exists, and every job calls webpack.
C1_ProdNeverConsultsCache ==
  isProd =>
    \A j \in Jobs :
      Started(j) =>
        /\ ~hist[j].existsChecked
        /\ ~hist[j].cacheCopied
        /\ jpc[j] /= "copyCache"
        /\ hist[j].webpackCalls = 1

\* a production job ran to its end while its cache entry existed
C1_Witness ==
  /\ isProd
  /\ \E j \in Jobs :
       /\ files[cachedPath(j)].exists
       /\ hist[j].cacheAtStart.exists
       /\ jres[j] = "resolved"

\* C2: within a run the cache file of a job differs from what it was when
\* the job started only if the build is non-production, webpack completed
\* with no err and no reported error, and the write-back has completed; then
\* it holds what webpack emitted.  A job whose compile failed leaves the
\* cache file as it found it.
C2_CacheWrittenOnlyAfterSuccess ==
  \A j \in Jobs :
    Started(j) =>
      /\ files[cachedPath(j)] /= hist[j].cacheAtStart =>
           /\ ~isProd
           /\ hist[j].outcome = "ok"
           /\ hist[j].wroteBack
           /\ files[cachedPath(j)] = hist[j].emitted
      /\ hist[j].outcome \in { "hard", "soft" } =>
           files[cachedPath(j)] = hist[j].cacheAtStart

\* one job of a non-production run wrote its cache entry, and a job of the
\* same run whose output file exists from an earlier run failed to compile
C2_Witness ==
  /\ ~isProd
  /\ \E j \in Jobs : hist[j].wroteBack /\ files[cachedPath(j)] /= hist[j].cacheAtStart
  /\ \E j \in Jobs :
       /\ hist[j].outcome = "soft"
       /\ files[outputPath(j)].exists
       /\ jpc[j] = "done"

\* C3: every cache file that exists holds the non-minified bundle of its own
\* entry, and a production run leaves every cache file as it was when the
\* run started its jobs.
C3_CacheHoldsUnminified ==
  \A j \in Jobs :
    /\ files[cachedPath(j)].exists =>
         /\ ~files[cachedPath(j)].min
         /\ \E v \in 1 .. srcRev : files[cachedPath(j)] = webpackOutput(Name(j), v)
    /\ (isProd /\ Started(j)) => files[cachedPath(j)] = hist[j].cacheAtStart

\* a production job minified its output while its cache entry existed
C3_Witness ==
  /\ isProd
  /\ \E j \in Jobs :
       /\ files[cachedPath(j)].exists
       /\ hist[j].wroteMinified
       /\ files[outputPath(j)].min

\* C4: a non-production job that found its cache entry never calls webpack,
\* and once it has resolved the output file equals the cache file.
C4_CacheHitCopies ==
  \A j \in Jobs :
    (~isProd /\ Started(j) /\ hist[j].cacheAtStart.exists) =>
      /\ hist[j].webpackCalls = 0
      /\ hist[j].outcome = "none"
      /\ jres[j] = "resolved" =>
           /\ files[outputPath(j)] = files[cachedPath(j)]
           /\ files[outputPath(j)] = hist[j].cacheAtStart

\* a cache hit resolved in a run whose source tree is newer than the cache
\* entry
C4_Witness ==
  \E j \in Jobs :
    /\ ~isProd
    /\ hist[j].cacheAtStart.exists
    /\ jres[j] = "resolved"
    /\ hist[j].cacheCopied
    /\ files[cachedPath(j)].ver < srcRev

\* C5: a non-production job that found no cache entry and whose compile
\* succeeded has, once resolved, called webpack, created the cache entry,
\* and the cache file equals the output file, which is as webpack emitted it.
C5_CacheMissWritesBack ==
  \A j \in Jobs :
    (~isProd /\ ~hist[j].cacheAtStart.exists /\ hist[j].outcome = "ok"
       /\ jres[j] = "resolved") =>
      /\ hist[j].webpackCalls = 1
      /\ files[cachedPath(j)].exists
      /\ files[cachedPath(j)] = files[outputPath(j)]
      /\ files[outputPath(j)] = hist[j].emitted
      /\ files[outputPath(j)] = webpackOutput(Name(j), srcRev)

\* a cache miss compiled, wrote back and resolved
C5_Witness ==
  \E j \in Jobs :
    /\ ~isProd
    /\ ~hist[j].cacheAtStart.exists
    /\ hist[j].outcome = "ok"
    /\ jres[j] = "resolved"
    /\ hist[j].wroteBack

\* C6: whenever a production job has resolved, its output file holds the
\* minified form of what webpack emitted in this run.
C6_ProdResolvedIsMinified ==
  \A j \in Jobs :
    (isProd /\ jres[j] = "resolved") =>
      /\ files[outputPath(j)].exists
      /\ files[outputPath(j)].min
      /\ [files[outputPath(j)] EXCEPT !.min = FALSE] = hist[j].emitted
      /\ hist[j].emitted = webpackOutput(Name(j), srcRev)

\* a production job resolved
C6_Witness ==
  \E j \in Jobs :
    /\ isProd
    /\ jres[j] = "resolved"
    /\ hist[j].wroteMinified

\* C7: when terser reports an error the job is rejected with that error, it
\* is not resolved, and the output file stays as webpack emitted it; a
\* production job that resolved had a minification without error.
C7_MinifyErrorRejects ==
  \A j \in Jobs :
    /\ hist[j].minifyError /= NoError =>
         /\ jres[j] = "rejected"
         /\ jerr[j] = hist[j].minifyError
         /\ jpc[j] = "done"
         /\ ~hist[j].wroteMinified
         /\ files[outputPath(j)] = hist[j].emitted
    /\ (isProd /\ jres[j] = "resolved") =>
         /\ hist[j].minified
         /\ hist[j].minifyError = NoError

\* terser reported an error for a production job
C7_Witness ==
  \E j \in Jobs :
    /\ isProd
    /\ hist[j].minifyError \in terserErrs
    /\ jpc[j] = "done"

\* C8: once the cache directory is ensured every job is started; the run
\* is past the join only if every job resolved; and when a job rejects, the
\* run is rejected with the error of the first job to reject.  The static
\* assets are copied only when every job resolved.
C8_AllOrNothingJoin ==
  /\ opc \in { "join", "copyVbs", "copyXdg", "done" } => \A j \in Jobs : Started(j)
  /\ opc \in { "copyVbs", "copyXdg", "done" } => \A j \in Jobs : jres[j] = "resolved"
  /\ copied /= {} => \A j \in Jobs : jres[j] = "resolved"
  /\ \A j \in Jobs :
       hist[j].order = 1 =>
         /\ opc = "failed"
         /\ allError = jerr[j]
         /\ copied = {}

\* two jobs rejected, with different errors
C8_Witness ==
  \E j, k \in Jobs :
    /\ hist[j].order = 1
    /\ hist[k].order = 2
    /\ jerr[j] /= jerr[k]
    /\ opc = "failed"

\* C9: every error that occurs inside a job rejects the job's promise with
\* that error.
C9_EveryErrorRejects ==
  \A j \in Jobs :
    hist[j].occurred /= NoError =>
      /\ jres[j] = "rejected"
      /\ jerr[j] = hist[j].occurred

\* the entry name appears in the error value
identifiesEntry(e, name) == \E i \in 1 .. Len(e.diag) : e.diag[i] = name

\* C10: the error a failed run is rejected with names the entry whose job
\* failed.
C10_ErrorNamesEntry ==
  \A j \in Jobs :
    (opc = "failed" /\ hist[j].order = 1) =>
      /\ allError = jerr[j]
      /\ identifiesEntry(allError, Name(j))

\* the request starts with the characters of prefix
startsWith(req, prefix) ==
  /\ Len(req) >= Len(prefix)
  /\ SubSeq(req, 1, Len(prefix)) = prefix

\* './', '../' or '/' at the start
pathShaped(req) ==
  \/ startsWith(req, << ".", "/" >>)
  \/ startsWith(req, << ".", ".", "/" >>)
  \/ startsWith(req, << "/" >>)

\* the three classes of a request the hook has answered
isInternal(r) == r.callbacks = 1 /\ ~r.thrown /\ ~r.external.defined
isExternal(r, id) == r.callbacks = 1 /\ ~r.thrown /\ r.external = moduleId(id)

\* C11: a request that begins with './', '../' or '/' is answered with
\* callback(null, undefined): it is Internal, never External or Redirect.
C11_PathShapedIsInternal ==
  (hookResult /= notCalled /\ pathShaped(request)) =>
    /\ isInternal(hookResult)
    /\ ~isExternal(hookResult, request)
    /\ ~isExternal(hookResult, mockDocTarget)

\* the hook answered a request made of '../' and a whitelisted name
C11_Witness ==
  /\ hookResult /= notCalled
  /\ request = << ".", ".", "/" >> \o os
  /\ isInternal(hookResult)

\* C12: a whitelisted request that resolves is External with the same id; one
\* that does not resolve makes the hook fail with the resolution error, and
\* the job whose compile asked for it is rejected with that error and emits
\* no output file.
C12_UnresolvableRejectsJob ==
  /\ \A req \in whitelist :
       /\ isExternal(externals(req, TRUE), req)
       /\ externals(req, FALSE).thrown
  /\ \A j \in Jobs :
       hist[j].occurred = resolutionError =>
         /\ jres[j] = "rejected"
         /\ jerr[j] = resolutionError
         /\ ~hist[j].emitted.exists

\* C13: the hook answers every request exactly once, in the order path
\* shape, redirect, whitelist, default: '@stencil/core/mock-doc' is external
\* as '../../mock-doc', and a request that matches none of the three rules is
\* Internal.
C13_TotalOrderedClassifier ==
  hookResult /= notCalled =>
    /\ hookResult.callbacks = 1
    /\ pathShaped(request) => isInternal(hookResult)
    /\ request = mockDocRequest => isExternal(hookResult, mockDocTarget)
    /\ (~pathShaped(request) /\ request /= mockDocRequest /\ request \in whitelist)
         => isExternal(hookResult, request)
    /\ (~pathShaped(request) /\ request /= mockDocRequest /\ request \notin whitelist)
         => isInternal(hookResult)

\* the part of C13 that does not depend on require.resolve: every request
\* outside the whitelist is answered exactly once, by the rules in order
ClassifierOutsideWhitelist ==
  (hookResult /= notCalled /\ request \notin whitelist) =>
    /\ hookResult.callbacks = 1
    /\ pathShaped(request) => isInternal(hookResult)
    /\ request = mockDocRequest => isExternal(hookResult, mockDocTarget)
    /\ (~pathShaped(request) /\ request /= mockDocRequest) => isInternal(hookResult)

\* C14: a non-production cache hit on an entry whose cache file was written
\* from the current revision of the source leaves in the output file exactly
\* what compiling that entry now would emit.
C14_CacheRoundTripIsRecompile ==
  \A j \in Jobs :
    (~isProd /\ hist[j].cacheCopied /\ jres[j] = "resolved"
       /\ hist[j].cacheAtStart.ver = srcRev) =>
      files[outputPath(j)] = webpackOutput(entryFileNames[j], srcRev)

\* every job of a non-production run hit a cache entry written from the
\* current revision
C14_Witness ==
  /\ ~isProd
  /\ \A j \in Jobs :
       /\ hist[j].cacheCopied
       /\ jres[j] = "resolved"
       /\ hist[j].cacheAtStart.ver = srcRev

\* C15: a job that has no step left, and whose webpack callback was invoked
\* if webpack was called, has settled: its promise is resolved or rejected,
\* not pending.
C15_NoJobLeftPending ==
  \A j \in Jobs :
    (jpc[j] \in { "done", "lost" }
       /\ (hist[j].webpackCalls = 0 \/ hist[j].outcome /= "none")) =>
      jres[j] \in { "resolved", "rejected" }

\* C16: when the webpack callback receives an err, the job is rejected with
\* that err, stats is not inspected, nothing is minified or written back,
\* and webpack was called once.
C16_HardFailureRejects ==
  \A j \in Jobs :
    hist[j].outcome = "hard" =>
      /\ jres[j] = "rejected"
      /\ jerr[j] = hist[j].err
      /\ ~hist[j].statsInspected
      /\ ~hist[j].minified
      /\ ~hist[j].wroteBack
      /\ hist[j].webpackCalls = 1

\* d is the sequence es with a newline between neighbours
newlineJoined(d, es) ==
  /\ Len(d) = 2 * Len(es) - 1
  /\ \A i \in 1 .. Len(es) : d[2 * i - 1] = es[i]
  /\ \A i \in 1 .. Len(es) - 1 : d[2 * i] = "\n"

\* C17: when webpack passes no err and stats reports errors, the job is
\* rejected with the reported errors joined by newlines, and the job neither
\* minifies nor writes back.
C17_SoftFailureRejects ==
  \A j \in Jobs :
    hist[j].outcome = "soft" =>
      /\ jres[j] = "rejected"
      /\ jpc[j] = "done"
      /\ jerr[j].kind = "string"
      /\ newlineJoined(jerr[j].diag, hist[j].errors)
      /\ ~hist[j].minified
      /\ ~hist[j].wroteMinified
      /\ ~hist[j].wroteBack

\* a job was rejected for two reported errors while its output file of an
\* earlier run exists
C17_Witness ==
  \E j \in Jobs :
    /\ hist[j].outcome = "soft"
    /\ Len(hist[j].errors) = 2
    /\ files[outputPath(j)].exists
    /\ jres[j] = "rejected"

\* C18: a started job runs after the cache directory was ensured; in a
\* non-production run webpack is called only after the cache check found no
\* entry; minification and write-back happen only after webpack completed
\* without error; a job resolves only after its copy, its write of the
\* minified code or its write-back completed; the asset copies start only
\* after every job resolved.
C18_StepsOrdered ==
  /\ \A j \in Jobs :
       Started(j) =>
         /\ cachedDirOk
         /\ (~isProd /\ hist[j].webpackCalls > 0) =>
              (hist[j].existsChecked /\ ~hist[j].cacheAtStart.exists)
         /\ (hist[j].minified \/ hist[j].wroteMinified \/ hist[j].wroteBack
               \/ jpc[j] \in { "readFile", "writeFile", "writeBack" }) =>
              (hist[j].outcome = "ok" /\ hist[j].emitted.exists)
         /\ jres[j] = "resolved" =>
              (hist[j].cacheCopied \/ hist[j].wroteMinified \/ hist[j].wroteBack)
  /\ (opc \in { "copyVbs", "copyXdg" } \/ copied /= {}) =>
       \A j \in Jobs : jres[j] = "resolved" /\ jpc[j] = "done"

\* a run finished in which one job was a cache hit and another compiled and
\* wrote back
C18_Witness ==
  /\ opc = "done"
  /\ copied = { "visualstudio.vbs", "xdg-open" }
  /\ \E j, k \in Jobs : hist[j].cacheCopied /\ hist[k].wroteBack

\* C19: no path is read or written by two jobs of a run, and a job reads and
\* writes only outputDir/entryFileName and cachedDir/entryFileName of its
\* own entry.
C19_JobsTouchDisjointFiles ==
  /\ \A j, k \in Jobs :
       j /= k => hist[j].touched \cap hist[k].touched = {}
  /\ \A j \in Jobs :
       hist[j].touched \subseteq
         { << outputDirs[j], entryFileNames[j] >>, << "cachedDir", entryFileNames[j] >> }

\* two jobs are both between their compile and their write-back
C19_Witness ==
  \E j, k \in Jobs :
    /\ j /= k
    /\ jpc[j] = "writeBack"
    /\ jpc[k] = "writeBack"
    /\ hist[j].touched /= {}
    /\ hist[k].touched /= {}

\* one step as C20 allows it for job j
C20_Step(j) ==
  /\ files[cachedPath(j)].exists =>
       files'[cachedPath(j)] = files[cachedPath(j)]
  /\ (files[cachedPath(j)].exists /\ ~isProd' /\ jpc[j] = "init" /\ jpc'[j] /= "init") =>
       (jpc'[j] = "copyCache" /\ hist'[j].webpackCalls = 0)
  /\ (jpc[j] = "copyCache" /\ jres'[j] = "resolved") =>
       files'[outputPath(j)] = files[cachedPath(j)]

\* C20: a cache file that exists is never rewritten or removed, and a
\* non-production job that starts while it exists copies it to the output
\* file without calling webpack, whatever the revision of the source.
C20_CacheWriteOnce ==
  [][\A j \in Jobs : C20_Step(j)]_vars

\* a cache hit resolved with bytes older than the source, in the second run
C20_Witness ==
  \E j \in Jobs :
    /\ run = 2
    /\ ~isProd
    /\ hist[j].cacheCopied
    /\ jres[j] = "resolved"
    /\ files[outputPath(j)] = files[cachedPath(j)]
    /\ files[outputPath(j)].ver < srcRev

====
